---- MODULE Spec2Model ----
(***************************************************************************)
(* Model of reservation-station.py: the concurrent, paginated, retrying    *)
(* acquisition pipeline (fetch_cuisine_reservations, one worker per        *)
(* cuisine, and fetch_available_reservations, the coordinator).            *)
(***************************************************************************)
EXTENDS Integers, Sequences, FiniteSets, TLC

(***************************************************************************)
(* Program constants                                                       *)
(***************************************************************************)
MAX_RETRIES == 3
RETRY_DELAY_MIN == 2
RETRY_DELAY_MAX == 5
PageCap == 10
max_workers == 5

(***************************************************************************)
(* Bounds of the model                                                     *)
(***************************************************************************)
\* number of entries of CUISINES that are searched (15 in the source)
NumCuisines == 2
\* number of upstream responses, over one search, that are not a 200 with a
\* well-formed page
MaxFaults == 3
\* number of calls submitted beyond what the pool runs at once, in the
\* searches that load the pool (15 - 5 in the source)
ExtraTasks == 1

CuisineNames ==
  << "American", "Chinese", "Cocktail Bar", "French", "Indian", "Italian",
     "Japanese", "Korean", "Mediterranean", "Mexican", "New American",
     "Seafood", "Steakhouse", "Sushi", "Thai" >>

\* Python's None, told apart from every text
None == << "None" >>

(***************************************************************************)
(* Text is a sequence of one-character strings.                            *)
(***************************************************************************)
Digits == {"0", "1", "2", "3", "4", "5", "6", "7", "8", "9"}

DigitVal(ch) ==
  CASE ch = "0" -> 0 [] ch = "1" -> 1 [] ch = "2" -> 2 [] ch = "3" -> 3
    [] ch = "4" -> 4 [] ch = "5" -> 5 [] ch = "6" -> 6 [] ch = "7" -> 7
    [] ch = "8" -> 8 [] ch = "9" -> 9

DigitChar(n) ==
  CASE n = 0 -> "0" [] n = 1 -> "1" [] n = 2 -> "2" [] n = 3 -> "3"
    [] n = 4 -> "4" [] n = 5 -> "5" [] n = 6 -> "6" [] n = 7 -> "7"
    [] n = 8 -> "8" [] n = 9 -> "9"

\* value of a field of one or two digits
NumVal(f) ==
  IF Len(f) = 1 THEN DigitVal(f[1]) ELSE 10 * DigitVal(f[1]) + DigitVal(f[2])

IsDigits(f) == Len(f) \in {1, 2} /\ \A i \in 1..Len(f) : f[i] \in Digits

\* %I : 1[0-2] | 0[1-9] | [1-9]
IsHour12(f) == IsDigits(f) /\ NumVal(f) \in 1..12

\* %M : [0-5]\d | \d
IsMinute(f) == IsDigits(f) /\ NumVal(f) \in 0..59

\* %p : AM or PM, in either case
IsAM(f) == Len(f) = 2 /\ f[1] \in {"A", "a"} /\ f[2] \in {"M", "m"}
IsPM(f) == Len(f) = 2 /\ f[1] \in {"P", "p"} /\ f[2] \in {"M", "m"}

IsSpaces(f) == Len(f) >= 1 /\ \A i \in 1..Len(f) : f[i] = " "

\* the ways s splits as  <hour> ":" <minute> <spaces> <marker>, given as the
\* positions of the colon, of the first space and of the marker
Splits(s) ==
  LET colons == { i \in 1..Len(s) : s[i] = ":" /\ IsHour12(SubSeq(s, 1, i - 1)) }
      markers == { k \in 1..Len(s) : \/ IsAM(SubSeq(s, k, Len(s)))
                                     \/ IsPM(SubSeq(s, k, Len(s))) }
  IN  { t \in colons \X (1..Len(s)) \X markers :
          /\ t[1] < t[2] /\ t[2] < t[3]
          /\ IsMinute(SubSeq(s, t[1] + 1, t[2] - 1))
          /\ IsSpaces(SubSeq(s, t[2], t[3] - 1)) }

\* datetime.strptime(target_time, "%I:%M %p") raises ValueError
ValueError(s) == Splits(s) = {}

TwoDigits(n) == << DigitChar(n \div 10), DigitChar(n % 10) >>

\* datetime.strptime(target_time, "%I:%M %p").strftime("%H:%M")
Strftime24(s) ==
  LET t == CHOOSE x \in Splits(s) : TRUE
      h12 == NumVal(SubSeq(s, 1, t[1] - 1))
      m == NumVal(SubSeq(s, t[1] + 1, t[2] - 1))
      h24 == (h12 % 12) + (IF IsPM(SubSeq(s, t[3], Len(s))) THEN 12 ELSE 0)
  IN  TwoDigits(h24) \o << ":" >> \o TwoDigits(m)

\* the target times a search is started with: absent, "" (falsy), a well
\* formed 12-hour time, and a malformed one
T_0600PM == << "0", "6", ":", "0", "0", " ", "P", "M" >>
T_6pm == << "6", "p", "m" >>
TargetTimes == { None, << >>, T_0600PM, T_6pm }

\* `if target_time:`
Truthy(t) == t # None /\ t # << >>

\* what strptime raises, told apart from every text
RaisesValueError == << "ValueError" >>

\* lines 49-55 for each target time: the time_filter of the payload, None when
\* no target time is given, or the ValueError that ends the call
TargetTime24h ==
  [ t \in TargetTimes |->
      IF ~Truthy(t) THEN None
      ELSE IF ValueError(t) THEN RaisesValueError
      ELSE Strftime24(t) ]

Days == { "2024-06-01" }
PartySizes == { 2 }


(***************************************************************************)
(* The upstream: what the search endpoint holds for each cuisine.  It is   *)
(* the same for every request of a search (a stable upstream); what varies *)
(* is how each single request fares (Responses below).                     *)
(***************************************************************************)
Slot(h, m, type) == [ h |-> h, m |-> m, type |-> type ]

Hit(slug, cuisine, slots) ==
  [ url_slug |-> slug, cuisine |-> cuisine, slots |-> slots ]

\* the upstreams a search is run against: one where a venue is listed under
\* two cuisines with different slots on offer, one with nothing to book, one
\* that reports more pages for the first cuisine than a call may fetch, and
\* one that answers the first two requests of every cuisine with a 502 and
\* has one page for the first cuisine
Upstreams == { "shared", "empty", "deep", "recovering" }

\* meta.total_pages of cuisine c
ReportedPages(u, c) ==
  CASE u = "shared" /\ c = 1 -> 2
    [] u = "shared" /\ c = 2 -> 1
    [] u = "deep" /\ c = 1 -> PageCap + 2
    [] u = "recovering" /\ c = 1 -> 1
    [] OTHER -> 0

\* search.hits of page p of cuisine c
PageHits(u, c, p) ==
  CASE u = "shared" /\ c = 1 /\ p = 1 ->
         << Hit("carbone", << "Italian", "American" >>,
                << Slot(18, 0, "Dining Room"), Slot(18, 30, "Bar") >>) >>
    [] u = "shared" /\ c = 1 /\ p = 2 ->
         << Hit("balthazar", << "French" >>,
                << Slot(0, 5, "Patio"), Slot(12, 15, "Bar") >>) >>
    [] u = "shared" /\ c = 2 /\ p = 1 ->
         << Hit("nobu", << "Japanese" >>, << Slot(19, 0, "Dining Room") >>),
            Hit("carbone", << "Italian", "American" >>,
                << Slot(20, 0, "Dining Room") >>) >>
    [] u = "recovering" /\ c = 1 /\ p = 1 ->
         << Hit("via-carota", << "Italian" >>, << Slot(17, 30, "Patio") >>),
            Hit("lilia", << "Italian" >>, << Slot(21, 15, "Bar") >>) >>
    [] u = "deep" /\ c = 1 /\ p = 1 ->
         << Hit("katz", << "American" >>, << Slot(11, 30, "Counter") >>) >>
    [] u = "deep" /\ c = 1 /\ p = 2 ->
         << Hit("joes-pizza", << "Pizza" >>, << Slot(13, 0, "Counter") >>) >>
    [] u = "deep" /\ c = 1 /\ p = PageCap ->
         << Hit("lucali", << "American" >>, << Slot(17, 0, "Dining Room") >>) >>
    [] u = "deep" /\ c = 1 /\ p = PageCap + 1 ->
         << Hit("peter-luger", << "American" >>, << Slot(21, 0, "Dining Room") >>) >>
    [] OTHER -> << >>

\* what one HTTP request can come back with: a status and a body, or no
\* response at all (requests.exceptions.RequestException)
NetErr == [ status |-> 0, body |-> "RequestException" ]
OK == 200
BadGateway == 502
ServerError == 500
\* "page": meta and search.hits;  "nometa": search.hits only;  "nosearch": meta
\* only;  "notjson": not JSON;  "badhit": meta and search.hits, the hits
\* lacking the "name" field
Bodies == { "page", "nometa", "nosearch", "notjson", "badhit" }
Nominal == [ status |-> OK, body |-> "page" ]
Responses ==
  [ status : { OK }, body : Bodies ]
    \cup [ status : { BadGateway, ServerError }, body : { "notjson" } ]
    \cup { NetErr }
NoResponse == [ status |-> 0, body |-> "None" ]

(***************************************************************************)
(* Records                                                                 *)
(***************************************************************************)
\* reservation_dt.strftime("%I:%M %p")
Strftime12(h, m) ==
  TwoDigits(IF h % 12 = 0 THEN 12 ELSE h % 12) \o << ":" >> \o TwoDigits(m)
    \o << " ", IF h < 12 THEN "A" ELSE "P", "M" >>

\* f"https://resy.com/cities/new-york-ny/venues/{slug}?date={day}&seats={party_size}"
ReservationLink(slug, d, n) == << slug, d, n >>

\* the record appended for one slot of one hit
Record(hit, slot, d, n) ==
  [ Venue |-> hit.url_slug,
    Cuisine |-> hit.cuisine[1],
    Time |-> Strftime12(slot.h, slot.m),
    Size |-> n,
    Dining |-> slot.type,
    Link |-> ReservationLink(hit.url_slug, d, n) ]

RECURSIVE Flatten(_)
Flatten(ss) == IF ss = << >> THEN << >> ELSE Head(ss) \o Flatten(Tail(ss))

\* the records of one hit: one per slot, in slot order
HitRecords(hit, d, n) ==
  [ i \in 1..Len(hit.slots) |-> Record(hit, hit.slots[i], d, n) ]

\* the records of one page: hit by hit
PageRecords(hits, d, n) ==
  Flatten([ i \in 1..Len(hits) |-> HitRecords(hits[i], d, n) ])

\* drop_duplicates() without a subset: a row stays when no earlier row equals it
DropDuplicateRows(rs) ==
  LET kept == SelectSeq([ i \in 1..Len(rs) |-> i ],
                        LAMBDA i : \A j \in 1..(i - 1) : rs[j] # rs[i])
  IN  [ k \in 1..Len(kept) |-> rs[kept[k]] ]

\* drop_duplicates(subset=['Reservation Link'], keep="last"): a row stays when
\* no later row carries its link
DropDuplicatesKeepLast(rs) ==
  LET kept == SelectSeq([ i \in 1..Len(rs) |-> i ],
                        LAMBDA i : \A j \in (i + 1)..Len(rs) : rs[j].Link # rs[i].Link)
  IN  [ k \in 1..Len(kept) |-> rs[kept[k]] ]

\* DataFrame.drop_duplicates(subset=['Reservation Link']), keep="first": a row
\* stays when no earlier row carries its link
DropDuplicates(rs) ==
  LET kept == SelectSeq([ i \in 1..Len(rs) |-> i ],
                        LAMBDA i : \A j \in 1..(i - 1) : rs[j].Link # rs[i].Link)
  IN  [ k \in 1..Len(kept) |-> rs[kept[k]] ]

\* int(data["meta"].get("total_pages", 0)) taken as it is, without the min
Uncapped(a, b) == b

Min(a, b) == IF a < b THEN a ELSE b


(***************************************************************************)
(* State                                                                   *)
(***************************************************************************)
VARIABLES
  n_cuisines,        \* len(CUISINES): the number of cuisines that are searched
  day, party_size, target_time,  \* arguments of fetch_available_reservations
  upstream,          \* what the search endpoint holds
  reliable,          \* whether the upstream answers every request with a page
  run,               \* which call of fetch_available_reservations this is
  first_aggregate,   \* what the first call returned, once a second is made
  frame,             \* per cuisine: the locals of its fetch_cuisine_reservations
                     \* call (stage: where the call is; attempt, page: the loop
                     \* variables of lines 37 and 85; total_pages, payload,
                     \* all_reservations)
  outcome,           \* per cuisine: how its last requests.post call ended
  result,            \* per cuisine: what its future holds
  returned_at,       \* per cuisine: the line its call returned or raised at
  posts,             \* per cuisine: the page of every requests.post call made
  sleeps,            \* per cuisine: the argument of every time.sleep call made
  completed,         \* the futures that are done and not yet yielded by
                     \* as_completed, in order of completion
  faults,            \* responses so far that were not a 200 with a page
  coord,             \* where fetch_available_reservations is
  finished,          \* as_completed: futures found finished when it was called
  finished_futures,  \* as_completed: futures finished since, in that order
  yielded,           \* futures as_completed has handed to the loop of line 153
  all_reservations,  \* all_reservations of line 145
  aggregate          \* the value fetch_available_reservations returns

input_vars == << n_cuisines, day, party_size, target_time, upstream, reliable >>
caller_vars == << run, first_aggregate >>
worker_vars == << frame, outcome, result, returned_at, posts, sleeps, faults >>
coord_vars == << coord, finished, yielded, all_reservations, aggregate >>
vars ==
  << input_vars, caller_vars, worker_vars, coord_vars, finished_futures, completed >>

\* cuisines are named by their index in the CUISINES list
CUISINES == 1..n_cuisines

NoResult == [ kind |-> "none", value |-> << >> ]
Returned(v) == [ kind |-> "return", value |-> v ]
\* a call that ended by raising an exception of class e
Raised(e) == [ kind |-> e, value |-> << >> ]

\* the classes `except Exception` catches, among those that can be raised
ExceptionSubclasses == { "KeyError", "ValueError", "TypeError", "RequestException" }

NoPayload == [ page |-> 0, time_filter |-> None ]

\* the frame of a call that has not begun, or is over
NoFrame(st) ==
  [ stage |-> st, attempt |-> 0, page |-> 0, total_pages |-> 0,
    payload |-> NoPayload, all_reservations |-> << >> ]

\* the searches that are run: a target time and an upstream
Searches ==
  { << T_0600PM, "shared" >>, << None, "empty" >>, << << >>, "empty" >>,
    << T_6pm, "shared" >>, << T_6pm, "empty" >> }

\* the state in which fetch_available_reservations has submitted one call per
\* cuisine to the executor (lines 145-151)
Submitted ==
  /\ frame = [ c \in CUISINES |-> NoFrame("pending") ]
  /\ outcome = [ c \in CUISINES |-> NoResponse ]
  /\ result = [ c \in CUISINES |-> NoResult ]
  /\ returned_at = [ c \in CUISINES |-> 0 ]
  /\ posts = [ c \in CUISINES |-> << >> ]
  /\ sleeps = [ c \in CUISINES |-> << >> ]
  /\ completed = << >>
  /\ faults = 0
  /\ coord = "submitted"
  /\ finished = {}
  /\ finished_futures = << >>
  /\ yielded = {}
  /\ all_reservations = << >>
  /\ aggregate = << >>

Inputs ==
  /\ day \in Days
  /\ party_size \in PartySizes
  /\ \E s \in Searches : target_time = s[1] /\ upstream = s[2]
  /\ run = 1
  /\ first_aggregate = << >>

\* one search, against an upstream that may fail requests
Init == n_cuisines = NumCuisines /\ Inputs /\ reliable = FALSE /\ Submitted

\* a search against an upstream that answers every request with a page
InitReliable == n_cuisines = NumCuisines /\ Inputs /\ reliable = TRUE /\ Submitted

\* a search of more cuisines than the pool has threads, against an upstream
\* that answers every request with a page
InitPool ==
  /\ n_cuisines = max_workers + ExtraTasks
  /\ Inputs /\ reliable = TRUE /\ Submitted

\* the search of a single cuisine, against an upstream that reports more than
\* PageCap pages for it and may fail requests
InitDeep ==
  /\ n_cuisines = 1
  /\ day \in Days
  /\ party_size \in PartySizes
  /\ target_time \in { None, T_6pm }
  /\ upstream = "deep"
  /\ run = 1
  /\ first_aggregate = << >>
  /\ reliable = FALSE
  /\ Submitted

\* a search against the upstream that is recovering, which fails no request
\* once it answers
InitRecovering ==
  /\ n_cuisines = NumCuisines
  /\ day \in Days
  /\ party_size \in PartySizes
  /\ target_time \in { None, T_0600PM, T_6pm }
  /\ upstream = "recovering"
  /\ run = 1
  /\ first_aggregate = << >>
  /\ reliable = TRUE
  /\ Submitted

Running == { c \in CUISINES : frame[c].stage \in { "attempt", "pages" } }
Pending == { c \in CUISINES : frame[c].stage = "pending" }
Done == { c \in CUISINES : frame[c].stage = "done" }

(***************************************************************************)
(* fetch_cuisine_reservations                                              *)
(***************************************************************************)
\* a call that ends without records, or by raising, cancels the futures that
\* no thread has taken yet
FinishCancels(c, res, line) ==
  LET cancelled == IF res.kind # "return" \/ res.value = << >> THEN Pending ELSE {}
      first == CHOOSE d \in cancelled : \A e \in cancelled : d <= e
      over == << c >> \o [ i \in 1..Cardinality(cancelled) |-> first + i - 1 ]
  IN  /\ frame' = [ d \in CUISINES |->
                      IF d = c \/ d \in cancelled THEN NoFrame("done") ELSE frame[d] ]
      /\ result' = [ d \in CUISINES |->
                       IF d = c THEN res
                       ELSE IF d \in cancelled THEN Raised("CancelledError")
                       ELSE result[d] ]
      /\ returned_at' = [ returned_at EXCEPT ![c] = line ]
      /\ completed' = completed \o over
      /\ finished_futures' =
           IF coord = "collecting" THEN finished_futures \o over
           ELSE finished_futures

\* the call ends at the given line with outcome res; a future that finishes
\* while as_completed is waiting is queued in order of completion
Finish(c, res, line) ==
  /\ frame' = [ frame EXCEPT ![c] = NoFrame("done") ]
  /\ result' = [ result EXCEPT ![c] = res ]
  /\ returned_at' = [ returned_at EXCEPT ![c] = line ]
  /\ completed' = Append(completed, c)
  /\ finished_futures' =
       IF coord = "collecting" THEN Append(finished_futures, c)
       ELSE finished_futures

\* the call goes on with frame f
Continue(c, f) ==
  /\ frame' = [ frame EXCEPT ![c] = f ]
  /\ UNCHANGED << result, returned_at, completed, finished_futures >>

\* a thread started for every work item, whatever the number already running
RunUnbounded(c) ==
  /\ frame[c].stage = "pending"
  /\ \A d \in Pending : c <= d
  /\ frame' = [ frame EXCEPT ![c].stage = "attempt", ![c].attempt = 1 ]
  /\ UNCHANGED << input_vars, caller_vars, outcome, result, returned_at, posts,
                  sleeps, faults, completed, coord_vars, finished_futures >>

\* a pool thread takes the next work item of the executor's queue
Run(c) ==
  /\ frame[c].stage = "pending"
  /\ \A d \in Pending : c <= d
  /\ Cardinality(Running) < max_workers
  /\ frame' = [ frame EXCEPT ![c].stage = "attempt", ![c].attempt = 1 ]
  /\ UNCHANGED << input_vars, caller_vars, outcome, result, returned_at, posts,
                  sleeps, faults, completed, coord_vars, finished_futures >>

\* time.sleep(max(RETRY_DELAY) - attempt): a delay that shrinks
DelayShrinking(a) == RETRY_DELAY_MAX - a

\* time.sleep(min(RETRY_DELAY) + (attempt * 1))
Delay(a) == RETRY_DELAY_MIN + (a * 1)

\* the sleep, then the pagination loop taken up again at the page after the
\* one whose request failed
RetryResumes(c, f) ==
  /\ sleeps' = [ sleeps EXCEPT ![c] = Append(@, Delay(f.attempt)) ]
  /\ IF f.attempt < MAX_RETRIES
       THEN Continue(c, [ f EXCEPT !.stage = "pages", !.attempt = @ + 1,
                                   !.page = @ + 1 ])
       ELSE Finish(c, Returned(<< >>), 141)

\* the sleep, then always another turn of the retry loop (`while True`)
RetryUnbounded(c, f) ==
  /\ sleeps' = [ sleeps EXCEPT ![c] = Append(@, Delay(f.attempt)) ]
  /\ Continue(c, [ f EXCEPT !.stage = "attempt", !.attempt = @ + 1 ])

\* the sleep of lines 62 and 138, then the next turn of the loop of line 37
\* with the frame f as it stands, or lines 140-141 after the last turn
Retry(c, f) ==
  /\ sleeps' = [ sleeps EXCEPT ![c] = Append(@, Delay(f.attempt)) ]
  /\ IF f.attempt < MAX_RETRIES
       THEN Continue(c, [ f EXCEPT !.stage = "attempt", !.attempt = @ + 1 ])
       ELSE Finish(c, Returned(<< >>), 141)

IsFault(r) == r # Nominal

\* the upstream that is recovering answers this request of cuisine c with a 502
Outage(c) == upstream = "recovering" /\ Len(posts[c]) < 2

\* requests.post for cuisine c ends with r, one of the ways the upstream may
\* answer now
Post(c, r) ==
  /\ r \in Responses
  /\ Outage(c) => r = [ status |-> BadGateway, body |-> "notjson" ]
  /\ (IsFault(r) /\ ~Outage(c)) => ~reliable /\ faults < MaxFaults
  /\ faults' = IF IsFault(r) /\ ~Outage(c) THEN faults + 1 ELSE faults
  /\ outcome' = [ outcome EXCEPT ![c] = r ]

\* the target time looked at only once the request has been made
InvalidTimeAfterPost(c) ==
  /\ frame[c].stage = "attempt"
  /\ TargetTime24h[target_time] = RaisesValueError
  /\ posts' = [ posts EXCEPT ![c] = Append(@, 1) ]
  /\ Finish(c, Returned(<< >>), 55)
  /\ UNCHANGED << input_vars, caller_vars, outcome, sleeps, faults, coord_vars >>

\* lines 38-55 when the target time does not parse: the call returns before
\* any request is made
InvalidTime(c) ==
  /\ frame[c].stage = "attempt"
  /\ TargetTime24h[target_time] = RaisesValueError
  /\ Finish(c, Returned(<< >>), 55)
  /\ UNCHANGED << input_vars, caller_vars, outcome, posts, sleeps, faults, coord_vars >>

\* every status other than 200 taken as a reason to retry
FirstOutcomeRetryNon200(r) ==
  CASE r = NetErr -> "retry"
    [] r # NetErr /\ r.status # OK -> "retry"
    [] r # NetErr /\ r.status = OK /\ r.body = "notjson" -> "abort73"
    [] r # NetErr /\ r.status = OK /\ r.body \in { "nometa", "nosearch" } -> "abort77"
    [] OTHER -> "paginate"

\* the outcome of lines 60-77 for response r to the first request
FirstOutcome(r) ==
  CASE r = NetErr -> "retry"
    [] r # NetErr /\ r.status = BadGateway -> "retry"
    [] r # NetErr /\ r.status # BadGateway /\ r.status # OK -> "abort67"
    [] r # NetErr /\ r.status = OK /\ r.body = "notjson" -> "abort73"
    [] r # NetErr /\ r.status = OK /\ r.body \in { "nometa", "nosearch" } -> "abort77"
    [] OTHER -> "paginate"

\* the pagination loop entered, and page 1 requested, also when zero pages
\* are reported
FirstRequestNoZeroCheck(c, pl, r) ==
  /\ Post(c, r)
  /\ posts' = [ posts EXCEPT ![c] = Append(@, pl.page) ]
  /\ LET out == FirstOutcome(r)
         tp == Min(PageCap, ReportedPages(upstream, c))
         f == [ frame[c] EXCEPT !.payload = pl ]
     IN
     CASE out = "retry" -> Retry(c, f)
       [] out = "abort67" -> Finish(c, Returned(<< >>), 67) /\ UNCHANGED sleeps
       [] out = "abort73" -> Finish(c, Returned(<< >>), 73) /\ UNCHANGED sleeps
       [] out = "abort77" -> Finish(c, Returned(<< >>), 77) /\ UNCHANGED sleeps
       [] OTHER ->
            /\ Continue(c, [ f EXCEPT !.total_pages = tp,
                                      !.stage = "pages", !.page = 1 ])
            /\ UNCHANGED sleeps

\* lines 57-83: the first request of a turn of the retry loop, sent with
\* payload pl and answered by r
FirstRequest(c, pl, r) ==
  /\ Post(c, r)
  /\ posts' = [ posts EXCEPT ![c] = Append(@, pl.page) ]
  /\ LET out == FirstOutcome(r)
         tp == Min(PageCap, ReportedPages(upstream, c))
         f == [ frame[c] EXCEPT !.payload = pl ]
     IN
     CASE out = "retry" -> Retry(c, f)
       [] out = "abort67" -> Finish(c, Returned(<< >>), 67) /\ UNCHANGED sleeps
       [] out = "abort73" -> Finish(c, Returned(<< >>), 73) /\ UNCHANGED sleeps
       [] out = "abort77" -> Finish(c, Returned(<< >>), 77) /\ UNCHANGED sleeps
       [] OTHER ->
            /\ IF tp = 0
                 THEN Finish(c, Returned(<< >>), 83)
                 ELSE Continue(c, [ f EXCEPT !.total_pages = tp,
                                             !.stage = "pages", !.page = 1 ])
            /\ UNCHANGED sleeps

\* lines 38-83: one turn of the retry loop up to the pagination loop
Attempt(c) ==
  /\ frame[c].stage = "attempt"
  /\ TargetTime24h[target_time] # RaisesValueError
  /\ LET pl == [ page |-> 1, time_filter |-> TargetTime24h[target_time] ]
     IN  \E r \in Responses : FirstRequest(c, pl, r)
  /\ UNCHANGED << input_vars, caller_vars, coord_vars >>

\* a page whose body is not JSON or lacks search.hits ends the call with the
\* exception of response.json() or of the lookup
PageOutcomeStrict(r, hits) ==
  CASE r = NetErr -> "retry"
    [] r # NetErr /\ r.body \in { "notjson", "nosearch" } -> "raise"
    [] r # NetErr /\ r.body = "badhit" /\ hits # << >> -> "raise"
    [] OTHER -> "append"

\* the outcome of lines 89-132 for response r to the request of a page with
\* the given hits
PageOutcome(r, hits) ==
  CASE r = NetErr -> "retry"
    [] r # NetErr /\ r.body \in { "notjson", "nosearch" } -> "skip"
    [] r # NetErr /\ r.body = "badhit" /\ hits # << >> -> "raise"
    [] OTHER -> "append"

\* lines 85-134: one turn of the pagination loop
Page(c, r) ==
  /\ frame[c].stage = "pages"
  /\ Post(c, r)
  /\ posts' = [ posts EXCEPT ![c] = Append(@, frame[c].page) ]
  /\ LET hits == PageHits(upstream, c, frame[c].page)
         out == PageOutcome(r, hits)
         recs == IF out = "skip" THEN frame[c].all_reservations
                 ELSE frame[c].all_reservations
                        \o PageRecords(hits, day, party_size)
         f == [ frame[c] EXCEPT !.payload.page = frame[c].page ]
     IN
     CASE out = "retry" -> Retry(c, f)
       [] out = "raise" ->
            \* restaurant["name"] raises KeyError
            Finish(c, Raised("KeyError"), 99) /\ UNCHANGED sleeps
       [] OTHER ->
            /\ IF f.page < f.total_pages
                 THEN Continue(c, [ f EXCEPT !.all_reservations = recs,
                                             !.page = @ + 1 ])
                 ELSE Finish(c, Returned(recs), 134)
            /\ UNCHANGED sleeps
  /\ UNCHANGED << input_vars, caller_vars, coord_vars >>

(***************************************************************************)
(* fetch_available_reservations                                            *)
(***************************************************************************)
\* line 153: as_completed is called; it first notes the futures already done
AsCompleted ==
  /\ coord = "submitted"
  /\ coord' = "collecting"
  /\ finished' = Done
  /\ UNCHANGED << input_vars, caller_vars, worker_vars, finished_futures, completed,
                  yielded, all_reservations, aggregate >>

\* the futures as_completed may yield next: those found finished at the call,
\* in any order, then the others in order of completion
NextFutures ==
  IF finished # {} THEN finished
  ELSE IF finished_futures # << >> THEN { Head(finished_futures) } ELSE {}

\* the loop of line 153 without its try/except: what a call raised is raised
\* again by future.result() and leaves fetch_available_reservations
MergeUncaught(c) ==
  /\ coord = "collecting"
  /\ c \in NextFutures
  /\ IF c \in finished
       THEN finished' = finished \ { c } /\ UNCHANGED finished_futures
       ELSE finished_futures' = Tail(finished_futures) /\ UNCHANGED finished
  /\ yielded' = yielded \cup { c }
  /\ completed' = SelectSeq(completed, LAMBDA d : d # c)
  /\ all_reservations' =
       IF result[c].kind = "return" THEN all_reservations \o result[c].value
       ELSE all_reservations
  /\ coord' = IF result[c].kind = "return" THEN coord ELSE "raised"
  /\ UNCHANGED << input_vars, caller_vars, worker_vars, aggregate >>

\* `all_reservations = result` in place of all_reservations.extend(result):
\* the list of each future takes the place of what was merged before
MergeOverwrites(c) ==
  /\ coord = "collecting"
  /\ c \in NextFutures
  /\ IF c \in finished
       THEN finished' = finished \ { c } /\ UNCHANGED finished_futures
       ELSE finished_futures' = Tail(finished_futures) /\ UNCHANGED finished
  /\ yielded' = yielded \cup { c }
  /\ completed' = SelectSeq(completed, LAMBDA d : d # c)
  /\ all_reservations' =
       IF result[c].kind = "return" THEN result[c].value ELSE all_reservations
  /\ coord' =
       IF result[c].kind = "return" \/ result[c].kind \in ExceptionSubclasses
         THEN coord ELSE "raised"
  /\ UNCHANGED << input_vars, caller_vars, worker_vars, aggregate >>

\* lines 154-158: the turn of the loop for future c.  future.result() gives
\* the list the call returned, or raises what the call raised; an exception
\* that `except Exception` does not catch leaves fetch_available_reservations
Merge(c) ==
  /\ coord = "collecting"
  /\ c \in NextFutures
  /\ IF c \in finished
       THEN finished' = finished \ { c } /\ UNCHANGED finished_futures
       ELSE finished_futures' = Tail(finished_futures) /\ UNCHANGED finished
  /\ yielded' = yielded \cup { c }
  /\ completed' = SelectSeq(completed, LAMBDA d : d # c)
  /\ all_reservations' =
       IF result[c].kind = "return" THEN all_reservations \o result[c].value
       ELSE all_reservations
  /\ coord' =
       IF result[c].kind = "return" \/ result[c].kind \in ExceptionSubclasses
         THEN coord ELSE "raised"
  /\ UNCHANGED << input_vars, caller_vars, worker_vars, aggregate >>

\* the result built as soon as one future has been yielded
ReturnEarly ==
  /\ coord = "collecting"
  /\ yielded # {}
  /\ coord' = "returned"
  /\ aggregate' = DropDuplicates(all_reservations)
  /\ UNCHANGED << input_vars, caller_vars, worker_vars, finished,
                  finished_futures, completed, yielded, all_reservations >>

\* lines 160-163, reached when as_completed has yielded every future
Return ==
  /\ coord = "collecting"
  /\ yielded = CUISINES
  /\ coord' = "returned"
  /\ aggregate' = DropDuplicates(all_reservations)
  /\ UNCHANGED << input_vars, caller_vars, worker_vars, finished, finished_futures,
                  completed, yielded, all_reservations >>

Next ==
  \/ \E c \in CUISINES : Run(c)
  \/ \E c \in CUISINES : InvalidTime(c)
  \/ \E c \in CUISINES : Attempt(c)
  \/ \E c \in CUISINES, r \in Responses : Page(c, r)
  \/ AsCompleted
  \/ \E c \in CUISINES : Merge(c)
  \/ Return

Spec == Init /\ [][Next]_vars

\* a search that submits more calls than the pool runs at once
SpecPool == InitPool /\ [][Next]_vars

\* the search of one cuisine for which the upstream reports more pages than
\* a call fetches
SpecDeep == InitDeep /\ [][Next]_vars

\* a search during which the upstream recovers from an outage
SpecRecovering == InitRecovering /\ [][Next]_vars

\* the steps of the pool thread that runs the call of cuisine c
WorkerStep(c) ==
  /\ c \in CUISINES
  /\ \/ Run(c)
     \/ InvalidTime(c)
     \/ Attempt(c)
     \/ \E r \in Responses : Page(c, r)

\* the steps of the thread that runs fetch_available_reservations
CoordinatorStep == AsCompleted \/ (\E c \in CUISINES : Merge(c)) \/ Return

\* every thread that can take a step is scheduled in the end, and every
\* request gets its response or its exception
Fairness ==
  /\ WF_vars(CoordinatorStep)
  /\ \A c \in 1..(max_workers + ExtraTasks) : WF_vars(WorkerStep(c))

\* the search of the deep upstream under fair scheduling
FairDeep == InitDeep /\ [][Next]_vars /\ Fairness

\* update_results calls fetch_available_reservations again with the same
\* arguments (the search button is clicked a second time)
Rerun ==
  /\ coord = "returned"
  /\ run = 1
  /\ run' = 2
  /\ first_aggregate' = aggregate
  /\ frame' = [ c \in CUISINES |-> NoFrame("pending") ]
  /\ outcome' = [ c \in CUISINES |-> NoResponse ]
  /\ result' = [ c \in CUISINES |-> NoResult ]
  /\ returned_at' = [ c \in CUISINES |-> 0 ]
  /\ posts' = [ c \in CUISINES |-> << >> ]
  /\ sleeps' = [ c \in CUISINES |-> << >> ]
  /\ completed' = << >>
  /\ faults' = 0
  /\ coord' = "submitted"
  /\ finished' = {}
  /\ finished_futures' = << >>
  /\ yielded' = {}
  /\ all_reservations' = << >>
  /\ aggregate' = << >>
  /\ UNCHANGED input_vars

NextTwice == Next \/ Rerun

\* two searches with the same arguments against a reliable upstream
SpecTwice == InitReliable /\ [][NextTwice]_vars

(***************************************************************************)
(* Properties                                                              *)
(***************************************************************************)
Links(rs) == { rs[i].Link : i \in 1..Len(rs) }
Rows(rs) == { rs[i] : i \in 1..Len(rs) }
Count(seq, x) == Cardinality({ i \in 1..Len(seq) : seq[i] = x })
\* the target times that are given and do not parse as %I:%M %p
Unparseable == { t \in TargetTimes : Truthy(t) /\ ValueError(t) }
InvalidTarget == target_time \in Unparseable

\* C1: once fetch_available_reservations has returned, no two records of the
\* aggregate carry the same reservation link, and a link that two cuisines
\* both returned is carried by exactly one record of the aggregate.
C1_UniqueLinks ==
  coord = "returned" =>
    /\ \A i, j \in 1..Len(aggregate) :
         i # j => aggregate[i].Link # aggregate[j].Link
    /\ \A c1, c2 \in CUISINES :
         c1 # c2 =>
           \A l \in Links(result[c1].value) \cap Links(result[c2].value) :
             Count([ i \in 1..Len(aggregate) |-> aggregate[i].Link ], l) = 1

\* two cuisines returned records for the same link, and the search returned
C1_SharedLinkMerged ==
  /\ coord = "returned"
  /\ \E c1, c2 \in CUISINES :
       /\ c1 # c2
       /\ Links(result[c1].value) \cap Links(result[c2].value) # {}
  /\ Len(aggregate) < Len(all_reservations)

\* C2: fetch_available_reservations never raises, whatever the calls of the
\* cuisines returned or raised; once every call is over it can always take
\* its next step, until it has returned; and when every cuisine reported zero
\* pages it returns an aggregate of zero records.
C2_AlwaysReturns ==
  /\ coord # "raised"
  /\ (Done = CUISINES /\ coord # "returned")
       => ENABLED (AsCompleted \/ (\E c \in CUISINES : Merge(c)) \/ Return)
  /\ (coord = "returned" /\ \A c \in CUISINES : returned_at[c] = 83)
       => aggregate = << >>

\* the search returned although the call of some cuisine raised
C2_ReturnedAfterRaise ==
  /\ coord = "returned"
  /\ \E c \in CUISINES : result[c].kind = "KeyError"

C4_ExhaustedDistinguishable ==
  \A c1, c2 \in CUISINES :
    (returned_at[c1] = 141 /\ returned_at[c2] = 83) => result[c1] # result[c2]

\* C5: no cuisine requests the same page more than MAX_RETRIES times, the
\* first request of each attempt (page 1) included.
C5_AttemptsPerPage ==
  \A c \in CUISINES : \A p \in 1..PageCap : Count(posts[c], p) <= MAX_RETRIES


\* C6 (as stated): a second search with the same arguments against the same
\* reliable upstream returns the same set of records as the first.
C6_SameRecords ==
  (run = 2 /\ coord = "returned") => Rows(aggregate) = Rows(first_aggregate)

\* the links that more than one cuisine returned in this search
SharedLinks ==
  UNION { Links(result[c1].value) \cap Links(result[c2].value) :
            << c1, c2 >> \in { p \in CUISINES \X CUISINES : p[1] # p[2] } }

\* C6 (amended): a second search with the same arguments against the same
\* reliable upstream returns the same set of reservation links as the first,
\* one record each, and the same record for every link that only one cuisine
\* returns; only the record of a link that several cuisines return may differ.
C6_SameLinks ==
  (run = 2 /\ coord = "returned") =>
    /\ Links(aggregate) = Links(first_aggregate)
    /\ Len(aggregate) = Len(first_aggregate)
    /\ \A r \in Rows(aggregate) :
         r \in Rows(first_aggregate) \/ r.Link \in SharedLinks

\* two searches of the same upstream ended with different records for a link
C6_RunsDiffer ==
  /\ run = 2
  /\ coord = "returned"
  /\ Rows(aggregate) # Rows(first_aggregate)
  /\ \E r \in Rows(aggregate) : Count(all_reservations, r) = 1 /\ r.Link \notin SharedLinks


\* C7: when the request of a page fails for good (network error on the last
\* attempt) after records were collected, the call returns those records.
C7_PartialKept ==
  [][ \A c \in CUISINES :
        ( /\ frame[c].stage = "pages"
          /\ frame[c].all_reservations # << >>
          /\ outcome'[c] = NetErr
          /\ frame'[c].stage = "done" )
        => result'[c] = Returned(frame[c].all_reservations) ]_vars

\* C8: a 502 in answer to the request of a page in the pagination loop makes
\* the call sleep and request that page again: it neither moves on to the
\* next page nor returns as if the page were done.
C8_Retry502OnPage ==
  [][ \A c \in CUISINES :
        ( /\ frame[c].stage = "pages"
          /\ posts'[c] # posts[c]
          /\ outcome'[c].status = BadGateway )
        => /\ sleeps'[c] # sleeps[c]
           /\ frame'[c].page # frame[c].page + 1
           /\ returned_at'[c] # 134 ]_vars

\* a response to the first request that is neither retried nor paginated: a
\* status other than 200 and 502, a body that is not JSON, or JSON lacking
\* "meta" or "search"
NonRetryable(r) ==
  /\ r \notin { NetErr, NoResponse }
  /\ r.status # BadGateway
  /\ r.status # OK \/ r.body \in { "notjson", "nometa", "nosearch" }

\* once a call is over it makes no request, sleeps no more and keeps its result
DoneIsFinal(c) ==
  frame[c].stage = "done" =>
    posts'[c] = posts[c] /\ sleeps'[c] = sleeps[c] /\ result'[c] = result[c]

\* C9: when the first request of an attempt gets a non-retryable response, the
\* call ends in that very step, having made that one request and no sleep; it
\* returns no records, and makes no request and no sleep afterwards.
C9_NoRetryOnNonRetryable ==
  [][ \A c \in CUISINES :
        /\ ( /\ frame[c].stage = "attempt"
             /\ posts'[c] # posts[c]
             /\ NonRetryable(outcome'[c]) )
           => /\ posts'[c] = Append(posts[c], 1)
              /\ sleeps'[c] = sleeps[c]
              /\ frame'[c].stage = "done"
              /\ result'[c] = Returned(<< >>)
        /\ DoneIsFinal(c) ]_vars

\* a cuisine's call ended on a non-retryable first response, and the search
\* has returned
C9_AbortedOnFirstResponse ==
  /\ coord = "returned"
  /\ \E c \in CUISINES :
       /\ NonRetryable(outcome[c])
       /\ posts[c] = << 1 >>
       /\ result[c] = Returned(<< >>)

\* C10: when the first successful response of a cuisine reports zero pages,
\* the call returns in that step, normally and with zero records, and makes
\* no request afterwards.
C10_ZeroPagesNoFetch ==
  [][ \A c \in CUISINES :
        /\ ( /\ frame[c].stage = "attempt"
             /\ posts'[c] # posts[c]
             /\ outcome'[c].status = OK
             /\ outcome'[c].body \in { "page", "badhit" }
             /\ ReportedPages(upstream, c) = 0 )
           => /\ posts'[c] = Append(posts[c], 1)
              /\ frame'[c].stage = "done"
              /\ result'[c] = Returned(<< >>)
        /\ frame[c].stage = "done" => posts'[c] = posts[c] ]_vars

\* a cuisine whose upstream reported zero pages, after one retry, is over and
\* the search has returned
C10_ZeroPagesReturned ==
  /\ coord = "returned"
  /\ \E c \in CUISINES :
       /\ ReportedPages(upstream, c) = 0
       /\ outcome[c] = Nominal
       /\ posts[c] = << 1, 1 >>
       /\ result[c] = Returned(<< >>)


\* C11: at every moment at most max_workers calls of
\* fetch_cuisine_reservations are between their start and their return,
\* though more are submitted; a call that has started never starts again, and
\* when the search returns every cuisine's call has run and is over.
C11_PoolBound ==
  /\ [](Cardinality(Running) <= max_workers)
  /\ [][ \A c \in CUISINES :
           frame[c].stage # "pending" => frame'[c].stage # "pending" ]_vars
  /\ [](coord = "returned" =>
          \A c \in CUISINES : frame[c].stage = "done" /\ result[c] # NoResult)

\* the pool is full, one of its threads has already made a request, and
\* a submitted call is still waiting for a thread
C11_PoolFull ==
  /\ n_cuisines > max_workers
  /\ Cardinality(Running) = max_workers
  /\ Pending # {}
  /\ \E c \in Running : posts[c] # << >>


\* C12: fetch_available_reservations returns only when the call of every
\* cuisine has run and is over, never while one is running or has not
\* started; and the end of one call, whether it returned records, returned
\* none or raised, leaves the call of every other cuisine as it was.
C12_ReturnsAfterAll ==
  /\ [](coord = "returned" =>
          \A c \in CUISINES : frame[c].stage = "done" /\ returned_at[c] # 0)
  /\ [][ \A c, d \in CUISINES :
           (c # d /\ frame[c].stage # "done" /\ frame'[c].stage = "done")
             => /\ frame'[d] = frame[d]
                /\ result'[d] = result[d]
                /\ returned_at'[d] = returned_at[d] ]_vars

\* the search returned the records of one cuisine though the call of another
\* had raised
C12_FailureDidNotCancel ==
  /\ coord = "returned"
  /\ aggregate # << >>
  /\ \E c, d \in CUISINES :
       /\ result[c].kind = "KeyError"
       /\ result[d].kind = "return"
       /\ result[d].value # << >>
       /\ Rows(aggregate) = Rows(result[d].value)


C14_PagesWithinCap ==
  \A c \in CUISINES : \A i \in 1..Len(posts[c]) :
    LET p == posts[c][i]
        reported == ReportedPages(upstream, c)
    IN  /\ 1 <= p
        /\ p <= PageCap
        /\ p <= reported \/ (p = 1 /\ reported = 0)

\* the upstream reported more than PageCap pages, and the call has returned
\* after requesting page PageCap, with the records of that page
C14_StoppedAtCap ==
  \E c \in CUISINES :
    /\ ReportedPages(upstream, c) > PageCap
    /\ returned_at[c] = 134
    /\ posts[c][Len(posts[c])] = PageCap
    /\ \E r \in Rows(result[c].value) : r.Venue = "lucali"
    /\ \A r \in Rows(result[c].value) : r.Venue # "peter-luger"


\* C15: a cuisine's call makes its requests one at a time, each answered (or
\* failed) before the next is made, and in page order: a request for a page
\* above 1 directly follows the request for the page before it, and that
\* request got a response.
C15_PagesInOrder ==
  [][ \A c \in CUISINES :
        posts'[c] # posts[c] =>
          /\ Len(posts'[c]) = Len(posts[c]) + 1
          /\ SubSeq(posts'[c], 1, Len(posts[c])) = posts[c]
          /\ outcome'[c] \in Responses
          /\ LET p == posts'[c][Len(posts'[c])]
             IN  p > 1 =>
                   /\ posts[c] # << >>
                   /\ posts[c][Len(posts[c])] = p - 1
                   /\ outcome[c] \in Responses \ { NetErr } ]_vars

\* a call fetched every page up to PageCap and returned, after a network
\* error in the pagination loop had made it start over
C15_RestartedInOrder ==
  \E c \in CUISINES :
    /\ returned_at[c] = 134
    /\ sleeps[c] # << >>
    /\ posts[c][Len(posts[c])] = PageCap
    /\ \E i \in 2..(Len(posts[c]) - 1) : posts[c][i] > 1 /\ posts[c][i + 1] = 1


\* a response to the request of a page whose body is not JSON, or is JSON
\* without search.hits
Malformed(r) == r # NetErr /\ r.body \in { "notjson", "nosearch" }

\* C16: a malformed response to the request of a page in the pagination loop
\* makes the call skip that page only: it keeps the records collected so far,
\* does not sleep, and goes on to the next page, or returns what it collected
\* when the page was the last; and a well-formed page adds its records to
\* those collected, whether or not a page before it was skipped.
C16_SkipMalformedPage ==
  [][ \A c \in CUISINES :
        (frame[c].stage = "pages" /\ posts'[c] # posts[c]) =>
          /\ Malformed(outcome'[c]) =>
               /\ sleeps'[c] = sleeps[c]
               /\ IF frame[c].page < frame[c].total_pages
                    THEN /\ frame'[c].stage = "pages"
                         /\ frame'[c].attempt = frame[c].attempt
                         /\ frame'[c].page = frame[c].page + 1
                         /\ frame'[c].all_reservations = frame[c].all_reservations
                    ELSE /\ returned_at'[c] = 134
                         /\ result'[c] = Returned(frame[c].all_reservations)
          /\ outcome'[c] = Nominal =>
               LET recs == frame[c].all_reservations
                             \o PageRecords(PageHits(upstream, c, frame[c].page),
                                            day, party_size)
               IN  IF frame[c].page < frame[c].total_pages
                     THEN /\ frame'[c].page = frame[c].page + 1
                          /\ frame'[c].all_reservations = recs
                     ELSE result'[c] = Returned(recs) ]_vars

\* a call returned, at its first attempt, the records of page 1 and of page
\* PageCap without those of page 2, whose response was malformed
C16_PagesAroundSkipped ==
  \E c \in CUISINES :
    /\ returned_at[c] = 134
    /\ sleeps[c] = << >>
    /\ Len(posts[c]) = PageCap + 1
    /\ PageHits(upstream, c, 2) # << >>
    /\ result[c].value =
         PageRecords(PageHits(upstream, c, 1), day, party_size)
           \o PageRecords(PageHits(upstream, c, PageCap), day, party_size)
    /\ Len(result[c].value) = 2


\* C17: when the first two requests of a cuisine are answered with a 502 and
\* the upstream then serves its one page of results, the call returns the
\* records of that page and has made exactly 3 HTTP requests.
C17_ThreeRequests ==
  \A c \in CUISINES :
    ( /\ upstream = "recovering"
      /\ ~InvalidTarget
      /\ ReportedPages(upstream, c) = 1
      /\ frame[c].stage = "done" )
    => /\ result[c] =
            Returned(PageRecords(PageHits(upstream, c, 1), day, party_size))
       /\ Len(posts[c]) = MAX_RETRIES


\* C18: the list a cuisine's call returns holds no slot twice: each of its
\* records is the record of one slot of one hit of one page of the cuisine,
\* and no two of its records are equal, also when a network error in the
\* pagination loop made the call retry.
C18_OneRecordPerSlot ==
  \A c \in CUISINES :
    returned_at[c] = 134 =>
      /\ \A i \in 1..Len(result[c].value) :
           \E p \in 1..PageCap :
             result[c].value[i]
               \in Rows(PageRecords(PageHits(upstream, c, p), day, party_size))
      /\ \A i, j \in 1..Len(result[c].value) :
           i # j => result[c].value[i] # result[c].value[j]


\* C19: the k-th sleep of a cuisine's call, which follows its k-th failed
\* attempt, lasts RETRY_DELAY_MIN + k seconds, whether the attempt failed by
\* a 502 or by a network error; so the delays of a call never decrease.
C19_DelayGrows ==
  /\ [](\A c \in CUISINES :
          /\ Len(sleeps[c]) <= MAX_RETRIES
          /\ \A k \in 1..Len(sleeps[c]) : sleeps[c][k] = RETRY_DELAY_MIN + k
          /\ \A k \in 2..Len(sleeps[c]) : sleeps[c][k - 1] <= sleeps[c][k])
  /\ [][ \A c \in CUISINES :
           ( /\ posts'[c] # posts[c]
             /\ \/ outcome'[c] = NetErr
                \/ frame[c].stage = "attempt" /\ outcome'[c].status = BadGateway )
           => sleeps'[c] = Append(sleeps[c], RETRY_DELAY_MIN + frame[c].attempt) ]_vars

\* a call slept 3 and then 4 seconds: its first attempt failed by a network
\* error at page 2, its second by a 502 to its first request
C19_AlternatingFailures ==
  \E c \in CUISINES :
    /\ sleeps[c] = << 3, 4 >>
    /\ posts[c] = << 1, 1, 2, 1 >>
    /\ outcome[c].status = BadGateway
    /\ frame[c].stage = "attempt"
    /\ frame[c].attempt = MAX_RETRIES


\* C20: a cuisine's call never goes beyond MAX_RETRIES turns of its retry
\* loop nor beyond MAX_RETRIES * (1 + PageCap) requests, and, every thread
\* being scheduled and every request getting an outcome, the search returns
\* in the end.
C20_Terminates ==
  /\ [](\A c \in CUISINES :
          /\ frame[c].attempt <= MAX_RETRIES
          /\ Len(sleeps[c]) <= MAX_RETRIES
          /\ Len(posts[c]) <= MAX_RETRIES * (1 + PageCap))
  /\ <>(coord = "returned" /\ Done = CUISINES)

\* the search returned after a call that made MAX_RETRIES * (1 + PageCap)
\* requests: each of its attempts failed at the last page
C20_LongestCall ==
  /\ coord = "returned"
  /\ \E c \in CUISINES :
       /\ Len(posts[c]) = MAX_RETRIES * (1 + PageCap)
       /\ returned_at[c] = 141


\* the cuisines whose call returned a list, rather than raised
ReturnedCuisines == { c \in CUISINES : result[c].kind = "return" }

\* C21: once fetch_available_reservations has returned, the links of the
\* aggregate are exactly the links of the records that the calls which
\* returned have returned, and every record of the aggregate is a record
\* that one of those calls returned.
C21_NoLinkLostNoRecordInvented ==
  coord = "returned" =>
    /\ Links(aggregate) = UNION { Links(result[c].value) : c \in ReturnedCuisines }
    /\ \A i \in 1..Len(aggregate) :
         \E c \in ReturnedCuisines : aggregate[i] \in Rows(result[c].value)

\* the search returned one record for each of three links, out of more
\* records than that: two cuisines returned records, some for the same link
C21_ThreeLinksKept ==
  /\ coord = "returned"
  /\ Cardinality(ReturnedCuisines) >= 2
  /\ \A c \in ReturnedCuisines : result[c].value # << >>
  /\ Cardinality(Links(aggregate)) = 3
  /\ Len(aggregate) = 3
  /\ Len(all_reservations) > 3

====
